---- MODULE Spec2Model ----
(***************************************************************************)
(* Zone-partitioned fuzzy clustering and score classification of           *)
(* cedenar_anomalies: PipelineClusterFzz and PipelinePuntaje               *)
(* (domain/services/clustering_pipeline_service.py), the model directory   *)
(* they persist to, and the frames they return.                            *)
(*                                                                         *)
(* A text is a sequence of tokens ("pipeline_" and ".pkl" are one token    *)
(* each, so that prefix, suffix and substring operations act as on the     *)
(* characters).  A frame is a sequence of column names and a sequence of   *)
(* rows; a row holds its pandas index label and its cells by position.     *)
(* The numeric libraries (scikit-learn, fcmeans, LightGBM) are outside the *)
(* repository: their fitted state and outputs are deterministic functions  *)
(* of the rows they are given.                                             *)
(***************************************************************************)
EXTENDS Integers, Sequences, FiniteSets, TLC

VARIABLES
    files,      \* the file system: path (directory, then name) -> content
    dirs,       \* the directories that exist
    pipelines,  \* the caller's zone -> pipeline mapping (ordered, as a dict)
    last,       \* the last call: its name, arguments, outcome
    runs,       \* training runs started so far
    running     \* the train_by_zone runs in progress side by side

vars == <<files, dirs, pipelines, last, runs, running>>

(***************************** bounds **************************************)
MaxTrainRows == 6   \* rows of a training dataset
MaxTrainZones == 2  \* distinct zones of a training dataset
MaxRows == 3        \* rows of a dataset to predict
MaxX == 1           \* LATI_USU takes the values 0..MaxX
MaxRuns == 2        \* train_by_zone calls in one behaviour
MaxFitRows == 6     \* rows of a dataset the score classifier is fitted on

(*************************** sequences *************************************)
Range(s) == {s[i] : i \in DOMAIN s}

RECURSIVE SelectSeq2(_, _, _)
\* the elements s[i] with keep[i], in order
SelectSeq2(s, keep, i) ==
    IF i > Len(s) THEN <<>>
    ELSE (IF keep[i] THEN <<s[i]>> ELSE <<>>) \o SelectSeq2(s, keep, i + 1)

RECURSIVE Unique(_)
\* pandas Series.unique(): the distinct values in order of first appearance
Unique(s) ==
    IF s = <<>> THEN <<>>
    ELSE LET front == Unique(SubSeq(s, 1, Len(s) - 1))
             x == s[Len(s)]
         IN IF x \in Range(front) THEN front ELSE Append(front, x)

Min(S) == CHOOSE x \in S : \A y \in S : x <= y
Max(S) == CHOOSE x \in S : \A y \in S : x >= y
Abs(x) == IF x < 0 THEN 0 - x ELSE x

NonEmptySeqs(S, n) == UNION {[1..k -> S] : k \in 1..n}

(***************************** frames **************************************)
\* column roles of the two services
numerical_cols == <<"LATI_USU", "LONG_USU">>
categorical_cols == <<"AREA", "PLAN_COMERCIAL">>
puntaje_numerical_cols == <<"LATI_USU", "LONG_USU", "KVA">>
puntaje_categorical_cols ==
    <<"AREA", "PLAN_COMERCIAL", "TRAFO_OPEN", "FASES", "Zona", "Codigo">>

\* the columns of a cleaned dataset, as the scripts read it
BaseCols ==
    <<"Zona", "LATI_USU", "LONG_USU", "AREA", "PLAN_COMERCIAL",
      "KVA", "TRAFO_OPEN", "FASES", "Codigo">>

ClusterColNames == <<"cluster_0", "cluster_1", "cluster_2", "cluster_3">>
PuntajeColNames == <<"puntaje_1", "puntaje_2", "puntaje_3", "puntaje_4">>

NaNCell == 0 - 1    \* a missing cell (the values of the model are >= 0)
Unparseable == 0 - 2    \* a cell holding a text that is no number

ZoneNames == {<<"A">>, <<"B">>, <<"pipeline_", "A">>}

RECURSIVE ColPosFrom(_, _, _)
ColPosFrom(cols, c, i) ==
    IF i > Len(cols) THEN 0
    ELSE IF cols[i] = c THEN i ELSE ColPosFrom(cols, c, i + 1)

\* the position of column c (the first one of that name), 0 when there is none
ColPos(cols, c) == ColPosFrom(cols, c, 1)

HasCols(df, wanted) == \A i \in DOMAIN wanted : wanted[i] \in Range(df.cols)

Cell(df, i, c) == df.rows[i].v[ColPos(df.cols, c)]

Column(df, c) ==
    LET p == ColPos(df.cols, c) IN [i \in DOMAIN df.rows |-> df.rows[i].v[p]]

\* df[mask]: the rows kept, with their index labels
Filter(df, keep) == [cols |-> df.cols, rows |-> SelectSeq2(df.rows, keep, 1)]

\* df[df["Zona"] == zona]
ZoneRows(df, zona) ==
    LET Zona == Column(df, "Zona")
    IN Filter(df, [i \in DOMAIN df.rows |-> Zona[i] = zona])

\* a frame left with the index labels it came with
ResetIndex_keep(df) == df

\* df.reset_index(drop=True)
ResetIndex(df) ==
    [cols |-> df.cols,
     rows |-> [i \in DOMAIN df.rows |-> [idx |-> i - 1, v |-> df.rows[i].v]]]

\* df[c] = values: an existing column is overwritten in place, a new one is
\* appended; the values are taken by position
SetColumn(df, c, values) ==
    IF c \in Range(df.cols)
    THEN [cols |-> df.cols,
          rows |-> [i \in DOMAIN df.rows |->
                      [idx |-> df.rows[i].idx,
                       v |-> [df.rows[i].v EXCEPT ![ColPos(df.cols, c)] = values[i]]]]]
    ELSE [cols |-> Append(df.cols, c),
          rows |-> [i \in DOMAIN df.rows |->
                      [idx |-> df.rows[i].idx, v |-> Append(df.rows[i].v, values[i])]]]

\* a dataset read from a file that has no column c
DropColumn(df, c) ==
    LET keep == [j \in DOMAIN df.cols |-> df.cols[j] # c]
    IN [cols |-> SelectSeq2(df.cols, keep, 1),
        rows |-> [i \in DOMAIN df.rows |->
                    [idx |-> df.rows[i].idx, v |-> SelectSeq2(df.rows[i].v, keep, 1)]]]

\* the cells of the row labelled idx, missing cells when there is none
RowAt(df, idx) ==
    IF \E i \in DOMAIN df.rows : df.rows[i].idx = idx
    THEN df.rows[CHOOSE i \in DOMAIN df.rows : df.rows[i].idx = idx].v
    ELSE [c \in DOMAIN df.cols |-> NaNCell]

\* pd.concat([a, b], axis=1): the rows are matched on their index labels (a's
\* labels, then b's other labels), a missing cell where a frame has no such row
ConcatColumns(a, b) ==
    LET labels == Unique([i \in DOMAIN a.rows |-> a.rows[i].idx]
                         \o [i \in DOMAIN b.rows |-> b.rows[i].idx])
    IN [cols |-> a.cols \o b.cols,
        rows |-> [i \in DOMAIN labels |->
                    [idx |-> labels[i], v |-> RowAt(a, labels[i]) \o RowAt(b, labels[i])]]]

\* a row of a cleaned dataset: only Zona and LATI_USU vary
BaseRow(zona, x) == <<zona, x, 0, 0, 0, 0, 0, 0, 0>>

\* the frame pd.read_csv returns: a RangeIndex 0..n-1
MkFrame(zs, xs) ==
    [cols |-> BaseCols,
     rows |-> [i \in DOMAIN zs |-> [idx |-> i - 1, v |-> BaseRow(zs[i], xs[i])]]]

(************************* ordered mappings *********************************)
\* a Python dict: a sequence of [key, value] with distinct keys, in insertion
\* order
DictKeys(d) == [i \in DOMAIN d |-> d[i].key]

DictHas(d, k) == \E i \in DOMAIN d : d[i].key = k

DictGet(d, k) == d[CHOOSE i \in DOMAIN d : d[i].key = k].value

\* d[k] = v: a present key keeps its place and takes the new value
DictPut(d, k, v) ==
    IF DictHas(d, k)
    THEN [i \in DOMAIN d |-> IF d[i].key = k THEN [key |-> k, value |-> v] ELSE d[i]]
    ELSE Append(d, [key |-> k, value |-> v])

(************************* fitted pipelines ********************************)
ClusterCounts == {2, 3}             \* the n_clusters a service is built with
Distances == {"euclidean"}          \* the distance a service is built with

\* models_dir(): the models directory of the project
models_dir == "models"

\* the model_dir a service may be built with: the default or another one
ModelDirs == {models_dir, "custom"}

\* PipelineClusterFzz(n_clusters=.., distance=..), as the scripts build it:
\* model_dir is left to its default
Services == [n_clusters : ClusterCounts, distance : Distances, model_dir : {models_dir}]

\* PipelineClusterFzz(n_clusters=.., distance=.., model_dir=..)
ServicesAt == [n_clusters : ClusterCounts, distance : Distances, model_dir : ModelDirs]

\* PipelineClusterFzz(logger=logger)
DefaultService == [n_clusters |-> 3, distance |-> "euclidean", model_dir |-> models_dir]

\* __init__: self.model_dir.mkdir(parents=True, exist_ok=True)
Construct(self, ds) == ds \cup {self.model_dir}

\* the positions of the cells of a column that are not missing
Present(xs) == {i \in DOMAIN xs : xs[i] # NaNCell}

\* SimpleImputer(strategy="mean").fit: the mean of the cells that are there
MeanOf(xs) ==
    LET RECURSIVE Sum(_)
        Sum(i) == IF i = 0 THEN 0
                  ELSE (IF xs[i] = NaNCell THEN 0 ELSE xs[i]) + Sum(i - 1)
    IN IF Present(xs) = {} THEN 0 ELSE Sum(Len(xs)) \div Cardinality(Present(xs))

\* SimpleImputer(strategy="most_frequent").fit: the value met most often
\* among the cells that are there, the smallest one on a tie
MostFrequent(xs) ==
    LET vals == {xs[i] : i \in Present(xs)}
        count(v) == Cardinality({i \in DOMAIN xs : xs[i] = v})
    IN IF vals = {} THEN NaNCell
       ELSE Min({v \in vals : \A w \in vals : count(v) >= count(w)})

\* SimpleImputer.transform: a missing cell takes the value learnt at fit
Impute(xs, fill) == [i \in DOMAIN xs |-> IF xs[i] = NaNCell THEN fill ELSE xs[i]]

\* an encoder that takes an unseen category for the first one
OrdinalEncode_first(categories, v) ==
    IF v \in Range(categories)
    THEN (CHOOSE i \in DOMAIN categories : categories[i] = v) - 1
    ELSE 0

\* OrdinalEncoder(handle_unknown="use_encoded_value", unknown_value=-1)
\* .transform of one value: its position in categories_, from 0, and -1 for a
\* value that is not in categories_
OrdinalEncode(categories, v) ==
    IF v \in Range(categories)
    THEN (CHOOSE i \in DOMAIN categories : categories[i] = v) - 1
    ELSE 0 - 1

\* the values of S in increasing order
RECURSIVE Sorted(_)
Sorted(S) == IF S = {} THEN <<>> ELSE <<Min(S)>> \o Sorted(S \ {Min(S)})

\* ColumnTransformer.fit on the declared feature columns: the numeric
\* imputer's mean, the categorical imputer's most frequent value and the
\* encoder's categories_ (the distinct values after imputation, sorted)
PreprocessFit(df) ==
    LET most_frequent == MostFrequent(Column(df, "AREA"))
    IN [mean |-> MeanOf(Column(df, "LATI_USU")),
        most_frequent |-> most_frequent,
        categories |-> Sorted(Range(Impute(Column(df, "AREA"), most_frequent)))]

\* the categorical pipeline's transform: the code of each row's category
CategoricalTransform(preprocess, df) ==
    LET imputed == Impute(Column(df, "AREA"), preprocess.most_frequent)
    IN [i \in DOMAIN df.rows |-> OrdinalEncode(preprocess.categories, imputed[i])]

\* ColumnTransformer.transform: the transformed features of each row, on one
\* axis
PreprocessTransform(preprocess, df) ==
    LET xs == Impute(Column(df, "LATI_USU"), preprocess.mean)
        codes == CategoricalTransform(preprocess, df)
    IN [i \in DOMAIN df.rows |-> (xs[i] - preprocess.mean) + codes[i]]

\* SklearnFCMWrapper.fit: k centers spread over the data, numbered from the
\* side of the first row (the seeded initialisation follows the row order)
FCMFit(k, X) ==
    LET lo == Min(Range(X))
        hi == Max(Range(X))
        asc == [i \in 1..k |-> lo + ((i - 1) * (hi - lo)) \div (k - 1)]
        centers == IF Abs(X[1] - lo) <= Abs(X[1] - hi)
                   THEN asc
                   ELSE [i \in 1..k |-> asc[k + 1 - i]]
    IN [n_clusters |-> k,
        centers |-> centers,
        pc_ |-> Cardinality(Range(centers)),
        pec_ |-> hi - lo]

\* the distance of a transformed feature to a center, never zero (a fitted
\* center is a weighted mean of all rows)
Dist(cluster, x, i) == 2 * Abs(x - cluster.centers[i]) + 1

\* memberships left as inverse squared distances, not divided by their total
SoftPredict_unnormalised(cluster, x) ==
    [i \in 1..cluster.n_clusters |-> 1000 \div (Dist(cluster, x, i) * Dist(cluster, x, i))]

\* SklearnFCMWrapper.soft_predict: memberships in thousandths, inverse to the
\* squared distance (m = 2)
SoftPredict(cluster, x) ==
    LET k == cluster.n_clusters
        RECURSIVE Prod(_, _)
        Prod(i, j) == IF j = 0 THEN 1
                      ELSE (IF j = i THEN 1 ELSE Dist(cluster, x, j) * Dist(cluster, x, j))
                           * Prod(i, j - 1)
        RECURSIVE Total(_)
        Total(i) == IF i = 0 THEN 0 ELSE Prod(i, k) + Total(i - 1)
    IN [i \in 1..k |-> (1000 * Prod(i, k)) \div Total(k)]

\* the index of the farthest center (the smallest membership) taken instead
HardPredict_farthest(cluster, x) ==
    Min({i \in 1..cluster.n_clusters :
           \A j \in 1..cluster.n_clusters : Dist(cluster, x, i) >= Dist(cluster, x, j)}) - 1

\* SklearnFCMWrapper.predict: the index of the largest membership (the first
\* one on a tie), which is the nearest center
HardPredict(cluster, x) ==
    Min({i \in 1..cluster.n_clusters :
           \A j \in 1..cluster.n_clusters : Dist(cluster, x, i) <= Dist(cluster, x, j)}) - 1

\* build_pipeline() and Pipeline.fit(df_zone)
PipelineFit(self, df_zone) ==
    LET preprocess == PreprocessFit(df_zone)
    IN [preprocess |-> preprocess,
        cluster |-> FCMFit(self.n_clusters, PreprocessTransform(preprocess, df_zone))]

\* what Pipeline.fit and the preprocessor's transform need: the declared
\* columns, at least one row, and numbers or missing cells in the numeric
\* columns (the mean imputer refuses any other value)
CanTransform(df) ==
    /\ HasCols(df, categorical_cols \o numerical_cols)
    /\ Len(df.rows) >= 1
    /\ \A c \in DOMAIN numerical_cols, i \in DOMAIN df.rows :
         Cell(df, i, numerical_cols[c]) # Unparseable

(**************************** predict **************************************)
\* the membership matrix as a frame with the columns cluster_0..cluster_{k-1}
MembershipFrame(cluster, X) ==
    [cols |-> SubSeq(ClusterColNames, 1, cluster.n_clusters),
     rows |-> [i \in DOMAIN X |-> [idx |-> i - 1, v |-> SoftPredict(cluster, X[i])]]]

\* PipelineClusterFzz.predict(pipeline, df): the frame returned, and the
\* caller's frame after the call (the method works on a copy)
predict(pipeline, df) ==
    IF ~CanTransform(df)
    THEN [raised |-> TRUE, df |-> df, caller |-> df]
    ELSE LET copy == df
             X_transformed == PreprocessTransform(pipeline.preprocess, copy)
             labels == [i \in DOMAIN X_transformed |->
                          HardPredict(pipeline.cluster, X_transformed[i])]
             labelled == SetColumn(copy, "cluster_id", labels)
         IN [raised |-> FALSE,
             df |-> ConcatColumns(ResetIndex(labelled),
                                  ResetIndex(MembershipFrame(pipeline.cluster,
                                                             X_transformed))),
             caller |-> df]

(************************** persistence ************************************)
\* directory / name
PathOf(dir, name) == <<dir>> \o name

\* the names of the files of a directory
FilesIn(fs, dir) == {Tail(f) : f \in {g \in DOMAIN fs : g[1] = dir}}

\* the artifact named after the last part of the zone name only
PipelineFileName_last_token(zona) == <<"pipeline_", zona[Len(zona)], ".pkl">>

\* f"pipeline_{zona}.pkl"
PipelineFileName(zona) == <<"pipeline_">> \o zona \o <<".pkl">>

\* f"{distance}_silhouette_scores.csv"
ScoresFileName(self) == <<self.distance, "_silhouette_scores.csv">>

\* self.scores_path = models_dir(f"{distance}_{scores_path}")
ScoresPath(self) == PathOf(models_dir, ScoresFileName(self))

\* self.model_dir / f"pipeline_{zona}.pkl"
PipelinePath(self, zona) == PathOf(self.model_dir, PipelineFileName(zona))

\* Path.glob("pipe*.pkl")
GlobPipeline_pipe(name) ==
    /\ Len(name) >= 2
    /\ name[1] \in {"pipeline_", "pipe_puntaje"}
    /\ name[Len(name)] = ".pkl"

\* Path.glob("pipeline_*.pkl")
GlobPipeline(name) ==
    /\ Len(name) >= 2
    /\ name[1] = "pipeline_"
    /\ name[Len(name)] = ".pkl"

\* Path.stem: the name without its last suffix
Stem(name) ==
    IF name[Len(name)] \in {".pkl", ".csv"} THEN SubSeq(name, 1, Len(name) - 1) ELSE name

RECURSIVE Replace(_, _)
\* str.replace(old, ""): every occurrence of old is removed
Replace(s, old) ==
    IF s = <<>> THEN <<>>
    ELSE (IF s[1] = old THEN <<>> ELSE <<s[1]>>) \o Replace(Tail(s), old)

\* the zone name load_pipelines reads out of a file name
ZoneOfFile(name) == Replace(Stem(name), "pipeline_")

\* joblib.dump: the pickled estimator, its fitted attributes in order
Dump(pipeline) ==
    <<"sklearn.pipeline.Pipeline",
      pipeline.preprocess.mean,
      pipeline.cluster.n_clusters,
      pipeline.cluster.centers,
      pipeline.cluster.pc_,
      pipeline.cluster.pec_,
      pipeline.preprocess.most_frequent,
      pipeline.preprocess.categories>>

\* joblib.load: the estimator rebuilt from the pickle
Load(bytes) ==
    [preprocess |-> [mean |-> bytes[2], most_frequent |-> bytes[7], categories |-> bytes[8]],
     cluster |-> [n_clusters |-> bytes[3],
                  centers |-> bytes[4],
                  pc_ |-> bytes[5],
                  pec_ |-> bytes[6]]]

\* writing a file into a directory emptied first
WriteFile_fresh_dir(fs, path, content) == (path :> content)

\* writing a file: created, or replaced whole
WriteFile(fs, path, content) == (path :> content) @@ fs

(************************** train_by_zone **********************************)
\* sklearn.metrics.silhouette_score: defined for 2 <= n_labels <= n_samples - 1
SilhouetteDefined(labels) ==
    /\ Cardinality(Range(labels)) >= 2
    /\ Cardinality(Range(labels)) <= Len(labels) - 1

silhouette_score(X, labels) == Cardinality(Range(labels))

\* PipelineClusterFzz.fit(df, zona)
fit(self, df, zona) == PipelineFit(self, ZoneRows(df, zona))

\* a call of fit as the loop makes it: the zone, and the index labels of the
\* rows fit selects and hands to Pipeline.fit
FitCall(df, zona) ==
    LET df_zone == ZoneRows(df, zona)
    IN [zona |-> zona, rows |-> [i \in DOMAIN df_zone.rows |-> df_zone.rows[i].idx]]

\* the state of the loop before its first pass
LoopStart(fs) ==
    [raised |-> FALSE, files |-> fs, silhouette_scores |-> <<>>, pipelines |-> <<>>,
     fits |-> <<>>, done |-> 0]

\* the loop body with the artifact written before the zone is scored
TrainZone_dump_first(self, df, zona, st) ==
    LET df_zone == ZoneRows(df, zona)
    IN IF ~CanTransform(df_zone)
       THEN [st EXCEPT !.raised = TRUE]
       ELSE LET pipeline == fit(self, df, zona)
                df_with_clusters == predict(pipeline, df_zone).df
                X_transformed == PreprocessTransform(pipeline.preprocess, df_zone)
                labels == Column(df_with_clusters, "cluster_id")
                written == WriteFile(st.files, PipelinePath(self, zona), Dump(pipeline))
            IN IF ~SilhouetteDefined(labels)
               THEN [st EXCEPT !.raised = TRUE, !.files = written,
                               !.fits = Append(st.fits, FitCall(df, zona))]
               ELSE [raised |-> FALSE,
                     fits |-> Append(st.fits, FitCall(df, zona)),
                     files |-> written,
                     silhouette_scores |->
                         Append(st.silhouette_scores,
                                [zona |-> zona,
                                 silhouette_score |-> silhouette_score(X_transformed, labels),
                                 PC |-> pipeline.cluster.pc_,
                                 PEC |-> pipeline.cluster.pec_]),
                     pipelines |-> DictPut(st.pipelines, zona, pipeline),
                     done |-> st.done + 1]

\* the loop body persisting a pipeline fitted on the whole dataset instead of
\* the one it returns
TrainZone_dump_refit(self, df, zona, st) ==
    LET df_zone == ZoneRows(df, zona)
    IN IF ~CanTransform(df_zone)
       THEN [st EXCEPT !.raised = TRUE]
       ELSE LET pipeline == fit(self, df, zona)
                df_with_clusters == predict(pipeline, df_zone).df
                X_transformed == PreprocessTransform(pipeline.preprocess, df_zone)
                labels == Column(df_with_clusters, "cluster_id")
            IN IF ~SilhouetteDefined(labels)
               THEN [st EXCEPT !.raised = TRUE,
                               !.fits = Append(st.fits, FitCall(df, zona))]
               ELSE [raised |-> FALSE,
                     fits |-> Append(st.fits, FitCall(df, zona)),
                     files |-> WriteFile(st.files, PipelinePath(self, zona),
                                         Dump(PipelineFit(self, df))),
                     silhouette_scores |->
                         Append(st.silhouette_scores,
                                [zona |-> zona,
                                 silhouette_score |-> silhouette_score(X_transformed, labels),
                                 PC |-> pipeline.cluster.pc_,
                                 PEC |-> pipeline.cluster.pec_]),
                     pipelines |-> DictPut(st.pipelines, zona, pipeline),
                     done |-> st.done + 1]

\* one pass of the loop body for zona; raised when fitting or scoring fails
TrainZone(self, df, zona, st) ==
    LET df_zone == ZoneRows(df, zona)
        Scored(pipeline, X_transformed, labels) ==
            IF ~SilhouetteDefined(labels)
            THEN [st EXCEPT !.raised = TRUE,
                            !.fits = Append(st.fits, FitCall(df, zona))]
            ELSE [raised |-> FALSE,
                  fits |-> Append(st.fits, FitCall(df, zona)),
                  files |-> WriteFile(st.files, PipelinePath(self, zona), Dump(pipeline)),
                  silhouette_scores |->
                      Append(st.silhouette_scores,
                             [zona |-> zona,
                              silhouette_score |-> silhouette_score(X_transformed, labels),
                              PC |-> pipeline.cluster.pc_,
                              PEC |-> pipeline.cluster.pec_]),
                  pipelines |-> DictPut(st.pipelines, zona, pipeline),
                  done |-> st.done + 1]
        Fitted(pipeline) ==
            Scored(pipeline,
                   PreprocessTransform(pipeline.preprocess, df_zone),
                   Column(predict(pipeline, df_zone).df, "cluster_id"))
    IN IF ~CanTransform(df_zone)
       THEN [st EXCEPT !.raised = TRUE]
       ELSE Fitted(fit(self, df, zona))

RECURSIVE TrainLoop(_, _, _, _, _)
\* for zona in df["Zona"].unique(): the loop stops at the first zone that raises
TrainLoop(self, df, zonas, i, st) ==
    IF i > Len(zonas) \/ st.raised THEN st
    ELSE TrainLoop(self, df, zonas, i + 1, TrainZone(self, df, zonas[i], st))

\* train_by_zone adding its rows to the scores file instead of replacing it
train_by_zone_append(self, df, fs, ds) ==
    IF ~HasCols(df, <<"Zona">>)
    THEN [LoopStart(fs) EXCEPT !.raised = TRUE]
    ELSE LET zonas == Unique(Column(df, "Zona"))
             st == TrainLoop(self, df, zonas, 1, LoopStart(fs))
             old == IF ScoresPath(self) \in DOMAIN fs THEN fs[ScoresPath(self)] ELSE <<>>
         IN IF st.raised THEN st
            ELSE IF models_dir \notin ds THEN [st EXCEPT !.raised = TRUE]
            ELSE [st EXCEPT !.files =
                      WriteFile(st.files, ScoresPath(self), old \o st.silhouette_scores)]

\* PipelineClusterFzz.train_by_zone(df) on the file system fs with the
\* directories ds.  done counts the zones trained and saved; the scores file
\* is written after the last zone, into a directory that must exist.
train_by_zone(self, df, fs, ds) ==
    LET Finish(st) ==
            IF st.raised THEN st
            ELSE IF models_dir \notin ds THEN [st EXCEPT !.raised = TRUE]
            ELSE [st EXCEPT !.files =
                      WriteFile(st.files, ScoresPath(self), st.silhouette_scores)]
    IN IF ~HasCols(df, <<"Zona">>)
       THEN [LoopStart(fs) EXCEPT !.raised = TRUE]
       ELSE Finish(TrainLoop(self, df, Unique(Column(df, "Zona")), 1, LoopStart(fs)))

(************************** load_pipelines *********************************)
RECURSIVE LoadLoop(_, _, _, _, _)
LoadLoop(self, fs, order, i, acc) ==
    IF i > Len(order) THEN acc
    ELSE LoadLoop(self, fs, order, i + 1,
                  DictPut(acc, ZoneOfFile(order[i]),
                          Load(fs[PathOf(self.model_dir, order[i])])))

\* PipelineClusterFzz.load_pipelines(), the directory listed in the given order
load_pipelines(self, fs, order) == LoadLoop(self, fs, order, 1, <<>>)

\* the orders in which self.model_dir.glob may list the matching files
GlobOrders(self, fs) ==
    LET matching == {name \in FilesIn(fs, self.model_dir) : GlobPipeline(name)}
        n == Cardinality(matching)
    IN {order \in [1..n -> matching] : \A i, j \in 1..n : order[i] = order[j] => i = j}

(************************ predict_all_zones ********************************)
\* pd.concat(frames, ignore_index=True): the union of the columns in order of
\* first appearance, a missing cell where a frame lacks a column
ConcatRows(frames) ==
    LET RECURSIVE AllCols(_)
        AllCols(i) == IF i = 0 THEN <<>> ELSE AllCols(i - 1) \o frames[i].cols
        cols == Unique(AllCols(Len(frames)))
        Reindex(f) ==
            LET pos == [c \in DOMAIN cols |-> ColPos(f.cols, cols[c])]
            IN [j \in DOMAIN f.rows |->
                  [c \in DOMAIN cols |->
                      IF pos[c] = 0 THEN NaNCell ELSE f.rows[j].v[pos[c]]]]
        RECURSIVE AllRows(_)
        AllRows(i) == IF i = 0 THEN <<>> ELSE AllRows(i - 1) \o Reindex(frames[i])
        rows == AllRows(Len(frames))
    IN [cols |-> cols,
        rows |-> [i \in DOMAIN rows |-> [idx |-> i - 1, v |-> rows[i]]]]

\* predict_all_zones with one pipeline (the first of the mapping) applied to
\* every zone's rows
predict_all_zones_one_pipeline(df, pipes) ==
    LET df_all == [i \in DOMAIN pipes |->
                     predict(pipes[1].value, ZoneRows(df, pipes[i].key))]
    IN IF \/ ~HasCols(df, <<"Zona">>)
          \/ pipes = <<>>
          \/ \E i \in DOMAIN pipes : df_all[i].raised
       THEN [raised |-> TRUE, df |-> df]
       ELSE [raised |-> FALSE,
             df |-> ConcatRows([i \in DOMAIN pipes |-> df_all[i].df])]

\* predict_all_zones without the zone filter: every pipeline predicts every row
predict_all_zones_no_filter(df, pipes) ==
    LET df_all == [i \in DOMAIN pipes |-> predict(pipes[i].value, df)]
    IN IF \/ ~HasCols(df, <<"Zona">>)
          \/ pipes = <<>>
          \/ \E i \in DOMAIN pipes : df_all[i].raised
       THEN [raised |-> TRUE, df |-> df]
       ELSE [raised |-> FALSE,
             df |-> ConcatRows([i \in DOMAIN pipes |-> df_all[i].df])]

\* predict_all_zones going through the zones in the order of the dataset
\* instead of the order of the mapping
predict_all_zones_input_order(df, pipes) ==
    LET present == SelectSeq(Unique(Column(df, "Zona")), LAMBDA z : DictHas(pipes, z))
        absent == SelectSeq(DictKeys(pipes), LAMBDA z : z \notin Range(present))
        zonas == present \o absent
        df_all == [i \in DOMAIN zonas |->
                     predict(DictGet(pipes, zonas[i]), ZoneRows(df, zonas[i]))]
    IN IF \/ ~HasCols(df, <<"Zona">>)
          \/ pipes = <<>>
          \/ \E i \in DOMAIN zonas : df_all[i].raised
       THEN [raised |-> TRUE, df |-> df]
       ELSE [raised |-> FALSE,
             df |-> ConcatRows([i \in DOMAIN zonas |-> df_all[i].df])]

\* PipelineClusterFzz.predict_all_zones(df, pipelines): raised when a zone's
\* predict raises or when there is nothing to concatenate
predict_all_zones(df, pipes) ==
    LET df_all == [i \in DOMAIN pipes |->
                     predict(pipes[i].value, ZoneRows(df, pipes[i].key))]
    IN IF \/ ~HasCols(df, <<"Zona">>)
          \/ pipes = <<>>
          \/ \E i \in DOMAIN pipes : df_all[i].raised
       THEN [raised |-> TRUE, df |-> df]
       ELSE [raised |-> FALSE,
             df |-> ConcatRows([i \in DOMAIN pipes |-> df_all[i].df])]

(************************** PipelinePuntaje *********************************)
ClassCounts == {2, 3}       \* the label classes a classifier was fitted on

\* a fitted scoring pipeline: the classifier's encoded classes 0..K-1
ScorePipelines == {[classes_ |-> [i \in 1..K |-> i - 1]] : K \in ClassCounts}

\* what the scoring pipeline's preprocessor and classifier need: the declared
\* columns and at least one row
CanScore(df) ==
    /\ HasCols(df, puntaje_numerical_cols \o puntaje_categorical_cols)
    /\ Len(df.rows) >= 1

\* Pipeline.predict_proba: one probability per class, in thousandths, from
\* the row's features
PredictProba(pipeline, df) ==
    LET K == Len(pipeline.classes_)
        xs == Column(df, "LATI_USU")
        w(i, c) == 1 + ((xs[i] + c) % K)
        RECURSIVE Total(_, _)
        Total(i, c) == IF c = 0 THEN 0 ELSE w(i, c) + Total(i, c - 1)
    IN [i \in DOMAIN df.rows |-> [c \in 1..K |-> (1000 * w(i, c)) \div Total(i, K)]]

\* the score predict with the probability columns in the reverse order of the
\* classes
puntaje_predict_reversed(pipeline, df) ==
    IF ~CanScore(df)
    THEN [raised |-> TRUE, df |-> df, caller |-> df]
    ELSE LET K == Len(pipeline.classes_)
             matrix_pertenencia == PredictProba(pipeline, df)
             matrix_pertenencia_df ==
                 [cols |-> SubSeq(PuntajeColNames, 1, K),
                  rows |-> [i \in DOMAIN df.rows |->
                              [idx |-> i - 1,
                               v |-> [c \in 1..K |-> matrix_pertenencia[i][K + 1 - c]]]]]
         IN [raised |-> FALSE,
             df |-> ConcatColumns(ResetIndex(df), ResetIndex(matrix_pertenencia_df)),
             caller |-> df]

\* PipelinePuntaje.predict(pipeline, df)
puntaje_predict(pipeline, df) ==
    IF ~CanScore(df)
    THEN [raised |-> TRUE, df |-> df, caller |-> df]
    ELSE LET copy == df
             matrix_pertenencia == PredictProba(pipeline, copy)
             matrix_pertenencia_df ==
                 [cols |-> SubSeq(PuntajeColNames, 1, Len(pipeline.classes_)),
                  rows |-> [i \in DOMAIN copy.rows |->
                              [idx |-> i - 1, v |-> matrix_pertenencia[i]]]]
         IN [raised |-> FALSE,
             df |-> ConcatColumns(ResetIndex(copy), ResetIndex(matrix_pertenencia_df)),
             caller |-> df]

(********************** PipelinePuntaje.fit / load *************************)
\* PipelinePuntaje(model_dir=..)
ScoreServices == [model_dir : ModelDirs]

\* PipelinePuntaje(params=.., logger=logger), as the scripts build it
DefaultScoreService == [model_dir |-> models_dir]

\* self.scores_path = models_dir(f"metrics_{scores_path}")
MetricsPath(self) == PathOf(models_dir, <<"metrics_", "class_puntaje", ".csv">>)

\* self.model_dir / "pipe_puntaje.pkl"
ScorePipelinePath(self) == PathOf(self.model_dir, <<"pipe_puntaje", ".pkl">>)

\* every row taken, the rows without a label not dropped
Labelled_all(df) == DOMAIN df.rows

\* df.dropna(subset=['puntaje']): the positions of the rows that have a label
Labelled(df) == {i \in DOMAIN df.rows : Cell(df, i, "puntaje") # NaNCell}

\* the stratification key of row i: the label joined to the zone
StratifyKey(df, i) == <<Cell(df, i, "puntaje"), "_">> \o Cell(df, i, "Zona")

\* the rows of a stratum among the rows S
Stratum(df, S, key) == {i \in S : StratifyKey(df, i) = key}

\* ceil(0.20 * n): the size of the held-out split of n rows
TestSize(n) == (n + 4) \div 5

\* train_test_split(test_size=0.20, stratify=..) accepts the rows S: every
\* stratum has two rows or more and neither split is smaller than the number
\* of strata
CanSplit(df, S) ==
    LET n == Cardinality(S)
        keys == {StratifyKey(df, i) : i \in S}
    IN /\ n >= 2
       /\ \A key \in keys : Cardinality(Stratum(df, S, key)) >= 2
       /\ TestSize(n) >= Cardinality(keys)
       /\ n - TestSize(n) >= Cardinality(keys)

\* the training splits of a shuffle that takes no account of the strata
TrainSplits_unstratified(df, S) ==
    {T \in SUBSET S : Cardinality(T) = Cardinality(S) - TestSize(Cardinality(S))}

\* the training splits the seeded shuffle may draw from the rows S: of
\* n - ceil(0.20 * n) rows, each stratum present in proportion (rounded
\* either way)
TrainSplits(df, S) ==
    LET n == Cardinality(S)
        n_train == n - TestSize(n)
        keys == {StratifyKey(df, i) : i \in S}
    IN {T \in SUBSET S :
          /\ Cardinality(T) = n_train
          /\ \A key \in keys :
               LET c == Cardinality(Stratum(df, S, key))
                   t == Cardinality(Stratum(df, T, key))
               IN /\ t >= (n_train * c) \div n
                  /\ t <= ((n_train * c) + n - 1) \div n}

\* the labels of the rows S
LabelsOf(df, S) == {Cell(df, i, "puntaje") : i \in S}

\* LabelEncoder.fit: classes_, the distinct labels in increasing order
LabelEncoderFit(y) == Sorted(y)

\* LabelEncoder.transform of a label: its position in classes_, from 0
LabelEncoderTransform(classes, y) == (CHOOSE i \in DOMAIN classes : classes[i] = y) - 1

\* joblib.dump / joblib.load of the scoring pipeline
DumpScore(pipeline) == <<"sklearn.pipeline.Pipeline", Len(pipeline.classes_)>>

LoadScore(bytes) == [classes_ |-> [i \in 1..bytes[2] |-> i - 1]]

\* scores_data: the one row of metrics of a fit
MetricsRows(pipeline, test) ==
    <<[Model |-> "params", classes |-> Len(pipeline.classes_), held_out |-> Cardinality(test)]>>

\* the result of a fit that raised before anything was written
FitRaised(fs, train, test) ==
    [raised |-> TRUE, files |-> fs, train |-> train, test |-> test, pipeline |-> <<>>]

\* PipelinePuntaje.fit(df) with the training split T drawn by the shuffle.
\* train and test are the positions in df of the rows of the two splits.
puntaje_fit(self, df, T, fs, ds) ==
    IF ~HasCols(df, <<"puntaje", "Zona">>) THEN FitRaised(fs, {}, {})
    ELSE LET S == Labelled(df)
         IN IF ~CanSplit(df, S) THEN FitRaised(fs, {}, {})
            ELSE LET test == S \ T
                     le == LabelEncoderFit(LabelsOf(df, T))
                     y_train_encoded ==
                         {LabelEncoderTransform(le, Cell(df, i, "puntaje")) : i \in T}
                     pipeline == [classes_ |-> Sorted(y_train_encoded)]
                 IN IF \/ LabelsOf(df, test) # Range(le)
                       \/ ~HasCols(df, puntaje_numerical_cols \o puntaje_categorical_cols)
                       \/ models_dir \notin ds
                    THEN FitRaised(fs, T, test)
                    ELSE [raised |-> FALSE,
                          files |-> WriteFile(WriteFile(fs, MetricsPath(self),
                                                        MetricsRows(pipeline, test)),
                                              ScorePipelinePath(self), DumpScore(pipeline)),
                          train |-> T,
                          test |-> test,
                          pipeline |-> pipeline]

\* the splits fit may be run with on df: the training splits the shuffle may
\* draw, or none when the split is refused
SplitsOf(df) ==
    IF HasCols(df, <<"puntaje", "Zona">>) /\ CanSplit(df, Labelled(df))
    THEN TrainSplits(df, Labelled(df))
    ELSE {{}}

\* the null result (Python's None)
None == [none |-> TRUE]

\* load_pipeline without the test that the file exists: joblib.load raises
load_pipeline_unchecked(self, fs) ==
    IF ScorePipelinePath(self) \in DOMAIN fs
    THEN [raised |-> FALSE, pipeline |-> LoadScore(fs[ScorePipelinePath(self)])]
    ELSE [raised |-> TRUE, pipeline |-> None]

\* PipelinePuntaje.load_pipeline()
load_pipeline(self, fs) ==
    IF ScorePipelinePath(self) \in DOMAIN fs
    THEN [raised |-> FALSE, pipeline |-> LoadScore(fs[ScorePipelinePath(self)])]
    ELSE [raised |-> FALSE, pipeline |-> None]

(****************************** scripts ************************************)
\* no frame
NoFrame == [cols |-> <<>>, rows |-> <<>>]

\* a call a script makes, with the mapping or pipeline it passes
Made(op, arg) == [op |-> op, arg |-> arg]

\* what a run of a script did: the calls it made, the outputs it wrote, the
\* frame of the last output written, and whether an exception left it
Ran(calls, written, out, raised) ==
    [calls |-> calls, written |-> written, out |-> out, raised |-> raised]

\* try: .. except Exception as e: logger.exception(..)
Caught(run) == [run EXCEPT !.raised = FALSE]

\* the columns inference.py selects for its sheet
cols_sheet ==
    <<"Usuario", "Ejecucion", "AREA", "PLAN_COMERCIAL", "Nombre", "kWh Rec",
      "cluster_id", "cluster_0", "cluster_1", "cluster_2",
      "puntaje", "puntaje_pred", "puntaje_1", "puntaje_2", "puntaje_3", "puntaje_4",
      "puntaje_5", "LATI_USU", "LONG_USU", "ZONA">>

\* predict_clusters.py, the block of lines 46-60 with the dataset df and the
\* directory listed in the given order
predict_clusters_try(fs, df, order) ==
         LET pipelines_ == load_pipelines(DefaultService, fs, order)
             c1 == <<Made("load_pipelines", <<>>)>>
         IN IF pipelines_ = <<>> THEN Ran(c1, <<>>, NoFrame, FALSE)
            ELSE LET res == predict_all_zones(df, pipelines_)
                     c2 == Append(c1, Made("predict_all_zones", pipelines_))
                 IN IF res.raised THEN Ran(c2, <<>>, NoFrame, TRUE)
                    ELSE IF res.df.rows = <<>> THEN Ran(c2, <<>>, NoFrame, FALSE)
                    ELSE Ran(c2, <<"dataset_con_clusters.csv">>, res.df, FALSE)

\* the block of inference.py with the emptiness test of the mapping left out
inference_try_unchecked(fs, df, order) ==
         LET pipelines_ == load_pipelines(DefaultService, fs, order)
             res == predict_all_zones(df, pipelines_)
             c2 == <<Made("load_pipelines", <<>>), Made("predict_all_zones", pipelines_)>>
         IN IF res.raised THEN Ran(c2, <<>>, NoFrame, TRUE)
            ELSE Ran(c2, <<"dataset_cluster.csv">>, res.df, FALSE)

\* inference.py, the block of lines 50-89
inference_try(fs, df, order) ==
         LET pipelines_ == load_pipelines(DefaultService, fs, order)
             c1 == <<Made("load_pipelines", <<>>)>>
         IN IF pipelines_ = <<>> THEN Ran(c1, <<>>, NoFrame, FALSE)
            ELSE LET res == predict_all_zones(df, pipelines_)
                     c2 == Append(c1, Made("predict_all_zones", pipelines_))
                     w1 == <<"dataset_cluster.csv">>
                     loaded == load_pipeline(DefaultScoreService, fs)
                     c3 == Append(c2, Made("load_pipeline", <<>>))
                 IN IF res.raised THEN Ran(c2, <<>>, NoFrame, TRUE)
                    ELSE IF res.df.rows = <<>> THEN Ran(c2, <<>>, NoFrame, FALSE)
                    ELSE IF loaded.raised THEN Ran(c3, w1, res.df, TRUE)
                    ELSE IF loaded.pipeline = None THEN Ran(c3, w1, res.df, FALSE)
                    ELSE LET scored == puntaje_predict(loaded.pipeline, res.df)
                             c4 == Append(c3, Made("puntaje_predict", loaded.pipeline))
                             w2 == Append(w1, "dataset_inference_{now}.csv")
                         IN IF scored.raised THEN Ran(c4, w1, res.df, TRUE)
                            ELSE IF scored.df.rows = <<>> THEN Ran(c4, w1, res.df, FALSE)
                            ELSE IF ~HasCols(scored.df, <<"AREA", "PLAN_COMERCIAL", "LATI_USU",
                                                          "LONG_USU", "ZONA">>)
                                 THEN Ran(c4, w2, scored.df, TRUE)
                            ELSE IF ~HasCols(scored.df, cols_sheet)
                                 THEN Ran(c4, Append(w2, "errores_inference.csv"), scored.df, TRUE)
                            ELSE Ran(c4, w2 \o <<"errores_inference.csv",
                                                 "dataset_inference.csv">>, scored.df, FALSE)

\* predict_clusters.py main(): nothing is done without the dataset (line 32),
\* every exception of the block is caught and logged (line 62)
predict_clusters_main(fs, present, df, order) ==
    IF ~present THEN Ran(<<>>, <<>>, NoFrame, FALSE)
    ELSE Caught(predict_clusters_try(fs, df, order))

\* inference.py main(): nothing is done without the dataset (line 36), every
\* exception of the block is caught and logged (line 91)
inference_main(fs, present, df, order) ==
    IF ~present THEN Ran(<<>>, <<>>, NoFrame, FALSE)
    ELSE Caught(inference_try(fs, df, order))

\* what a run of train.py did: the directory after it, the zone fits made,
\* whether the classifier was fitted, and the calls whose exception was logged
Trained(fs, fits, fitted, failed) ==
    [files |-> fs, fits |-> fits, fitted |-> fitted, failed |-> failed]

\* train.py main() with the dataset df and the split T the shuffle draws:
\* nothing is done without the dataset (line 31), the zones are trained, then
\* the classifier is fitted on the same dataset, and every exception of the
\* block is caught and logged (line 76)
train_main(fs, ds, present, df, T) ==
    IF ~present THEN Trained(fs, <<>>, FALSE, <<>>)
    ELSE LET res == train_by_zone(DefaultService, df, fs, ds)
         IN IF res.raised THEN Trained(res.files, res.fits, FALSE, <<"train_by_zone">>)
            ELSE IF res.pipelines = <<>> THEN Trained(res.files, res.fits, FALSE, <<>>)
            ELSE LET fitted == puntaje_fit(DefaultScoreService, df, T, res.files, ds)
                 IN IF fitted.raised
                    THEN Trained(fitted.files, res.fits, FALSE, <<"fit">>)
                    ELSE Trained(fitted.files, res.fits, TRUE, <<>>)

(***************************** inputs ***************************************)
\* LATI_USU down the rows: the values 0..MaxX in turn, from offset b
XPattern(n, b) == [i \in 1..n |-> (i + b) % (MaxX + 1)]

\* the cleaned datasets of 1..n rows
Frames(n, offsets) ==
    {MkFrame(zs, XPattern(Len(zs), b)) : zs \in NonEmptySeqs(ZoneNames, n), b \in offsets}

\* the datasets a training script may read: at most MaxTrainZones zones
TrainFrames ==
    {df \in Frames(MaxTrainRows, {0}) :
        Cardinality(Range(Column(df, "Zona"))) <= MaxTrainZones}

\* the datasets a prediction script may read
InputFrames == Frames(MaxRows, {0})

\* a dataset that already carries a cluster_id column (an earlier prediction)
OldLabels == {0, 1}

WithClusterId(df, c) == SetColumn(df, "cluster_id", [i \in DOMAIN df.rows |-> c])

\* the frames a caller may hand to a predict: a dataset or the rows of one of
\* its zones (which keep their index labels), with or without an earlier
\* cluster_id column
PredictFrames ==
    LET whole == Frames(MaxRows, 0..MaxX)
        parts == whole \cup {ZoneRows(df, z) : df \in whole, z \in ZoneNames}
    IN parts \cup {WithClusterId(df, c) : df \in parts, c \in OldLabels}

\* the pipelines fit can return for these datasets
FittedPipelines ==
    {PipelineFit(self, df) : self \in Services, df \in Frames(MaxRows, 0..MaxX)}

\* the target labels of a dataset
Labels == {1, 2}

\* the zones down the rows of a labelled dataset: one zone, or two
FitZones(n) ==
    {[i \in 1..n |-> <<"A">>],
     [i \in 1..n |-> IF 2 * i <= n THEN <<"A">> ELSE <<"B">>]}

\* the datasets the score classifier may be fitted on: every row with a
\* label or without one
FitFrames ==
    UNION {{SetColumn(MkFrame(zs, XPattern(n, 0)), "puntaje", ys) :
              zs \in FitZones(n), ys \in [1..n -> Labels \cup {NaNCell}]} :
           n \in 1..MaxFitRows}

\* the datasets of the scripts' model: full datasets of MaxRows rows for the
\* zone clustering, and for the classifier a dataset of one label, one of
\* two labels, one of the three labels 1, 3, 5 and one without the label column
ScriptTrainFrames == {df \in Frames(MaxRows, {0}) : Len(df.rows) = MaxRows}

ScriptFitFrames ==
    {SetColumn(MkFrame([i \in 1..2 |-> <<"A">>], XPattern(2, 0)), "puntaje", <<1, 1>>),
     SetColumn(MkFrame([i \in 1..6 |-> <<"A">>], XPattern(6, 0)), "puntaje",
               <<1, 2, 1, 2, 1, 2>>),
     SetColumn(MkFrame([i \in 1..11 |-> <<"A">>], XPattern(11, 0)), "puntaje",
               <<5, 1, 3, 5, 1, 3, 5, 1, 3, 5, 1>>),
     MkFrame(<<<<"A">>>>, XPattern(1, 0))}

\* a dataset of zone A rows with the given LATI_USU and AREA cells
ZoneAFrame(xs, as) == SetColumn(MkFrame([i \in DOMAIN xs |-> <<"A">>], xs), "AREA", as)

\* the cells of a feature column as a file may hold them: a value, nothing,
\* or a text that is no number
RawCells == {0, 1, NaNCell, Unparseable}

\* the raw datasets a zone may be trained on: three rows, the first with the
\* category 0
RawTrainFrames ==
    {ZoneAFrame(xs, as) : xs \in [1..3 -> RawCells],
                          as \in {f \in [1..3 -> RawCells] : f[1] = 0}}

\* the raw datasets to predict: one row, its category possibly one (2) that
\* no training dataset holds
RawInputFrames == {ZoneAFrame(<<x>>, <<a>>) : x \in RawCells, a \in RawCells \cup {2}}

\* the datasets train.py may read: a complete one, and the same without its
\* label column, its zone column, a feature column of both services, and a
\* feature column of the classifier only
TrainScriptFull ==
    SetColumn(MkFrame([i \in 1..6 |-> <<"A">>], XPattern(6, 0)), "puntaje",
              <<1, 2, 1, 2, 1, 2>>)

TrainScriptFrames ==
    {TrainScriptFull} \cup
    {DropColumn(TrainScriptFull, c) : c \in {"puntaje", "Zona", "AREA", "KVA"}}

NoService == [n_clusters |-> 0, distance |-> "", model_dir |-> ""]

\* a call as its caller sees it: the arguments, the directory before it, the
\* outcome, and the caller's frame after it
Call(op, self, df, pipes, before, raised, ret, caller) ==
    [op |-> op, self |-> self, df |-> df, pipes |-> pipes, before |-> before,
     raised |-> raised, ret |-> ret, caller |-> caller]

Started == Call("start", NoService, NoFrame, <<>>, <<>>, FALSE, <<>>, NoFrame)

(********************** runs side by side ***********************************)
\* two training scripts started on the same model directory
Procs == {1, 2}

\* joblib.dump writes the pickle into the open file in parts: the stream up
\* to the first array, then the arrays.  ChunkAt[k] is where part k starts.
ChunkAt == <<1, 4>>
ChunkEnd == <<3, 8>>

\* the bytes a file holds where nothing was written yet (a hole)
Holes == <<"", 0, 0, <<>>, 0, 0, 0, <<>>>>

\* write(data) at the position from of an open file
WriteAt(content, from, data) ==
    LET upto == from + Len(data) - 1
        n == IF Len(content) > upto THEN Len(content) ELSE upto
    IN [j \in 1..n |->
          IF j >= from /\ j <= upto THEN data[j - from + 1]
          ELSE IF j <= Len(content) THEN content[j]
          ELSE Holes[j]]

\* a run of train_by_zone: where it is, on what, and its loop state (its own
\* pipelines mapping and scores list); k is the part of the artifact to write
Idle ==
    [pc |-> "idle", self |-> NoService, df |-> NoFrame, zonas |-> <<>>, i |-> 0,
     k |-> 0, st |-> LoopStart(<<>>)]

\* the datasets of the runs: one zone, or two
ConcurrentFrames ==
    {MkFrame([i \in 1..3 |-> <<"A">>], XPattern(3, 0)),
     MkFrame([i \in 1..6 |-> IF i <= 3 THEN <<"A">> ELSE <<"B">>], XPattern(6, 0))}

\* the run that wrote each file last
NoWrites == <<>>

(***************************** actions **************************************)
\* The file system outlives the scripts; a script's variables (its pipelines
\* mapping, the frames it holds) end with it.
Init ==
    /\ files = <<>>
    /\ dirs = {}
    /\ pipelines = <<>>
    /\ last = Started
    /\ runs = 0
    /\ running = [procs |-> [p \in Procs |-> Idle], last_write |-> NoWrites]

\* pipe = PipelineClusterFzz(..); pipelines = pipe.train_by_zone(df)
TrainByZoneWith(services, frames) ==
    /\ last.op = "start"
    /\ runs < MaxRuns
    /\ \E self \in services, df \in frames :
         LET Returns(ds, res) ==
                 /\ files' = res.files
                 /\ dirs' = ds
                 /\ pipelines' = IF res.raised THEN pipelines ELSE res.pipelines
                 /\ last' = Call("train_by_zone", self, df, <<>>, files, res.raised,
                                 [pipelines |-> IF res.raised THEN <<>> ELSE res.pipelines,
                                  fits |-> res.fits,
                                  done |-> res.done],
                                 df)
         IN Returns(Construct(self, dirs),
                    train_by_zone(self, df, files, Construct(self, dirs)))
    /\ runs' = runs + 1
    /\ UNCHANGED running

\* train_clusters.py, train.py
TrainByZone == TrainByZoneWith(Services, TrainFrames)

\* predict_clusters.py, inference.py: pipe = PipelineClusterFzz(logger=logger);
\* pipelines = pipe.load_pipelines()
LoadPipelines ==
    /\ last.op = "start"
    /\ \E order \in GlobOrders(DefaultService, files) :
         LET res == load_pipelines(DefaultService, files, order)
         IN /\ pipelines' = res
            /\ last' = Call("load_pipelines", DefaultService, NoFrame, <<>>, files, FALSE,
                            res, NoFrame)
    /\ dirs' = Construct(DefaultService, dirs)
    /\ UNCHANGED <<files, runs>>
    /\ UNCHANGED running

\* predict_clusters.py, inference.py: pipe.predict_all_zones(df, pipelines),
\* on the mapping just loaded when it is not empty
PredictAllZonesOn(frames) ==
    /\ last.op = "load_pipelines"
    /\ pipelines # <<>>
    /\ \E df \in frames :
         LET res == predict_all_zones(df, pipelines)
         IN last' = Call("predict_all_zones", DefaultService, df, pipelines, files,
                         res.raised, res.df, df)
    /\ UNCHANGED <<files, dirs, pipelines, runs>>
    /\ UNCHANGED running

PredictAllZones == PredictAllZonesOn(InputFrames)

\* the script ends
Exit ==
    /\ last.op # "start"
    /\ last' = Started
    /\ pipelines' = <<>>
    /\ UNCHANGED <<files, dirs, runs>>
    /\ UNCHANGED running

\* a caller of PipelineClusterFzz.predict(pipeline, df)
Predict ==
    /\ last.op = "start"
    /\ \E pipeline \in FittedPipelines, df \in PredictFrames :
         LET res == predict(pipeline, df)
         IN last' = Call("predict", NoService, df, <<[key |-> <<>>, value |-> pipeline]>>,
                         files, res.raised, res.df, res.caller)
    /\ UNCHANGED <<files, dirs, pipelines, runs>>
    /\ UNCHANGED running

\* a caller of PipelinePuntaje.predict(pipeline, df)
PuntajePredict ==
    /\ last.op = "start"
    /\ \E pipeline \in ScorePipelines, df \in PredictFrames :
         LET res == puntaje_predict(pipeline, df)
         IN last' = Call("puntaje_predict", NoService, df,
                         <<[key |-> <<>>, value |-> pipeline]>>, files, res.raised, res.df,
                         res.caller)
    /\ UNCHANGED <<files, dirs, pipelines, runs>>
    /\ UNCHANGED running

\* pipe_puntaje = PipelinePuntaje(..); pipeline_puntaje = pipe_puntaje.fit(df)
PuntajeFitWith(services, frames) ==
    /\ last.op = "start"
    /\ runs < MaxRuns
    /\ \E self \in services, df \in frames :
         \E T \in SplitsOf(df) :
            LET ds == Construct(self, dirs)
                res == puntaje_fit(self, df, T, files, ds)
            IN /\ files' = res.files
               /\ dirs' = ds
               /\ last' = Call("puntaje_fit", self, df, <<>>, files, res.raised,
                               [train |-> res.train, test |-> res.test,
                                pipeline |-> res.pipeline],
                               df)
    /\ runs' = runs + 1
    /\ UNCHANGED pipelines
    /\ UNCHANGED running

\* PipelinePuntaje.fit on any labelled dataset
PuntajeFit == PuntajeFitWith(ScoreServices, FitFrames)

\* train.py: the classifier fitted by a script
PuntajeFitScript == PuntajeFitWith(ScoreServices, ScriptFitFrames)

\* a script training the zones with a service of its own model_dir
TrainByZoneAt == TrainByZoneWith(ServicesAt, ScriptTrainFrames)

\* pipe_puntaje = PipelinePuntaje(logger=logger); pipe_puntaje.load_pipeline()
LoadPipeline ==
    /\ last.op = "start"
    /\ LET res == load_pipeline(DefaultScoreService, files)
       IN last' = Call("load_pipeline", DefaultScoreService, NoFrame, <<>>, files,
                       res.raised, res.pipeline, NoFrame)
    /\ dirs' = Construct(DefaultScoreService, dirs)
    /\ UNCHANGED <<files, pipelines, runs>>
    /\ UNCHANGED running

\* a run of predict_clusters.py
PredictClustersMain ==
    /\ last.op = "start"
    /\ \E present \in BOOLEAN, df \in InputFrames,
          order \in GlobOrders(DefaultService, files) :
         LET res == predict_clusters_main(files, present, df, order)
         IN /\ last' = Call("predict_clusters.py", DefaultService, df, <<>>, files,
                            res.raised, res, df)
            /\ dirs' = IF present THEN Construct(DefaultService, dirs) ELSE dirs
    /\ UNCHANGED <<files, pipelines, runs>>
    /\ UNCHANGED running

\* a run of inference.py
InferenceMain ==
    /\ last.op = "start"
    /\ \E present \in BOOLEAN, df \in InputFrames,
          order \in GlobOrders(DefaultService, files) :
         LET res == inference_main(files, present, df, order)
         IN /\ last' = Call("inference.py", DefaultService, df, <<>>, files,
                            res.raised, res, df)
            /\ dirs' = IF present THEN Construct(DefaultService, dirs) ELSE dirs
    /\ UNCHANGED <<files, pipelines, runs>>
    /\ UNCHANGED running

\* a service trained, and a classifier fitted, on a dataset train.py may read
TrainByZoneAny == TrainByZoneWith(ServicesAt, TrainScriptFrames)

PuntajeFitAny == PuntajeFitWith(ScoreServices, TrainScriptFrames)

\* a run of train.py
TrainMain ==
    /\ last.op = "start"
    /\ runs < MaxRuns
    /\ \E present \in BOOLEAN, df \in TrainScriptFrames :
         \E T \in SplitsOf(df) :
            LET ds == IF present THEN Construct(DefaultService, dirs) ELSE dirs
                res == train_main(files, ds, present, df, T)
            IN /\ files' = res.files
               /\ dirs' = ds
               /\ last' = Call("train.py", DefaultService, df, <<>>, files, FALSE, res, df)
    /\ runs' = runs + 1
    /\ UNCHANGED pipelines
    /\ UNCHANGED running

\* training and prediction on raw datasets
TrainByZoneRaw == TrainByZoneWith({DefaultService}, RawTrainFrames)

PredictAllZonesRaw == PredictAllZonesOn(RawInputFrames)

\* a script starts: pipe = PipelineClusterFzz(..); pipe.train_by_zone(df)
\* enters its loop
StartRun(p) ==
    /\ running.procs[p].pc = "idle"
    /\ \E self \in Services, df \in ConcurrentFrames :
         /\ dirs' = Construct(self, dirs)
         /\ running' = [running EXCEPT !.procs[p] =
                           [Idle EXCEPT !.pc = "fit", !.self = self, !.df = df,
                                        !.zonas = Unique(Column(df, "Zona")), !.i = 1]]
    /\ UNCHANGED <<files, pipelines, last, runs>>

\* lines 140-151: the zone is fitted and scored; an exception leaves the run
FitZone(p) ==
    LET run == running.procs[p]
    IN /\ run.pc = "fit"
       /\ LET res == TrainZone(run.self, run.df, run.zonas[run.i], run.st)
          IN running' = [running EXCEPT !.procs[p] =
                            IF res.raised THEN [run EXCEPT !.pc = "failed"]
                            ELSE [run EXCEPT !.pc = "open",
                                             !.st = [res EXCEPT !.files = <<>>]]]
       /\ UNCHANGED <<files, dirs, pipelines, last, runs>>

\* line 153, joblib.dump: the artifact's file is opened for writing, which
\* empties it
OpenArtifact(p) ==
    LET run == running.procs[p]
        path == PipelinePath(run.self, run.zonas[run.i])
    IN /\ run.pc = "open"
       /\ files' = WriteFile(files, path, <<>>)
       /\ running' = [running EXCEPT
                         !.procs[p] = [run EXCEPT !.pc = "write", !.k = 1],
                         !.last_write = (path :> [run |-> p, zona |-> run.zonas[run.i]]) @@ @]
       /\ UNCHANGED <<dirs, pipelines, last, runs>>

\* line 153, joblib.dump: the next part of the pickle is written at the
\* run's own position in the file; after the last part the loop goes on
\* (lines 156-159) to the next zone or to the scores file
WriteChunk(p) ==
    LET run == running.procs[p]
        zona == run.zonas[run.i]
        path == PipelinePath(run.self, zona)
        bytes == Dump(DictGet(run.st.pipelines, zona))
        data == SubSeq(bytes, ChunkAt[run.k], ChunkEnd[run.k])
    IN /\ run.pc = "write"
       /\ files' = WriteFile(files, path, WriteAt(files[path], ChunkAt[run.k], data))
       /\ running' = [running EXCEPT
                         !.procs[p] =
                             IF run.k < Len(ChunkAt) THEN [run EXCEPT !.k = run.k + 1]
                             ELSE IF run.i < Len(run.zonas)
                             THEN [run EXCEPT !.pc = "fit", !.i = run.i + 1, !.k = 0]
                             ELSE [run EXCEPT !.pc = "scores", !.k = 0],
                         !.last_write = (path :> [run |-> p, zona |-> zona]) @@ @]
       /\ UNCHANGED <<dirs, pipelines, last, runs>>

\* line 161: the scores file is written and the run returns its mapping
WriteScores(p) ==
    LET run == running.procs[p]
    IN /\ run.pc = "scores"
       /\ files' = WriteFile(files, ScoresPath(run.self), run.st.silhouette_scores)
       /\ running' = [running EXCEPT
                         !.procs[p] = [run EXCEPT !.pc = "done"],
                         !.last_write = (ScoresPath(run.self) :> [run |-> p, zona |-> <<>>]) @@ @]
       /\ UNCHANGED <<dirs, pipelines, last, runs>>

Next == TrainByZone \/ LoadPipelines \/ PredictAllZones \/ Exit

Spec == Init /\ [][Next]_vars

\* the predict operations on their own
NextPredict == Predict \/ PuntajePredict \/ Exit

SpecPredict == Init /\ [][NextPredict]_vars

\* the services built with a model_dir of their own, the classifier's
\* artifact, and the scripts run as a whole
NextScripts ==
    \/ TrainByZoneAt
    \/ PuntajeFitScript
    \/ LoadPipelines
    \/ LoadPipeline
    \/ PredictClustersMain
    \/ InferenceMain
    \/ Exit

SpecScripts == Init /\ [][NextScripts]_vars

\* the classifier's fit on its own
NextFit == PuntajeFit \/ Exit

SpecFit == Init /\ [][NextFit]_vars

\* the zone pipelines trained and applied on raw datasets
NextRaw == TrainByZoneRaw \/ LoadPipelines \/ PredictAllZonesRaw \/ Exit

SpecRaw == Init /\ [][NextRaw]_vars

\* two training scripts side by side on one model directory, their steps in
\* any order
NextConcurrent ==
    \E p \in Procs :
        \/ StartRun(p)
        \/ FitZone(p)
        \/ OpenArtifact(p)
        \/ WriteChunk(p)
        \/ WriteScores(p)

SpecConcurrent == Init /\ [][NextConcurrent]_vars

\* the training script and its two operations on the datasets it may read
NextTrain == TrainMain \/ TrainByZoneAny \/ PuntajeFitAny \/ Exit

SpecTrain == Init /\ [][NextTrain]_vars

(***************************** claims ***************************************)
Returned(op) == last.op = op /\ ~last.raised

\* the cells of an output row that came with the input
BaseCells(row) == SubSeq(row.v, 1, Len(BaseCols))

\* C1: predict_all_zones applies the pipeline stored under key z only to rows
\* whose zone is z: every output row's cluster_id and memberships are the ones
\* the pipeline under the row's own zone computes from that row.
C1_ZoneIsolation ==
    Returned("predict_all_zones") =>
        \A j \in DOMAIN last.ret.rows :
            LET z == Cell(last.ret, j, "Zona")
            IN /\ DictHas(last.pipes, z)
               /\ LET p == DictGet(last.pipes, z)
                      x == Cell(last.ret, j, "LATI_USU") - p.preprocess.mean
                  IN /\ Cell(last.ret, j, "cluster_id") = HardPredict(p.cluster, x)
                     /\ \A i \in 1..p.cluster.n_clusters :
                          Cell(last.ret, j, ClusterColNames[i]) = SoftPredict(p.cluster, x)[i]

\* C1's case: a mapping of two keys, rows of both zones in the output, and a
\* row that the other key's pipeline would label differently
C1_Witness ==
    /\ Returned("predict_all_zones")
    /\ Len(last.pipes) >= 2
    /\ Cardinality(Range(Column(last.ret, "Zona"))) >= 2
    /\ \E j \in DOMAIN last.ret.rows, i \in DOMAIN last.pipes :
         LET q == last.pipes[i].value
         IN /\ last.pipes[i].key # Cell(last.ret, j, "Zona")
            /\ HardPredict(q.cluster, Cell(last.ret, j, "LATI_USU") - q.preprocess.mean)
                 # Cell(last.ret, j, "cluster_id")

\* the rows of df whose zone is a key of the mapping
KeyedRows(df, pipes) ==
    {i \in DOMAIN df.rows : DictHas(pipes, Cell(df, i, "Zona"))}

Zonas == Unique(Column(last.df, "Zona"))

\* the zones the last train_by_zone call trained and saved before it ended
TrainedZonas == {Zonas[i] : i \in 1..last.ret.done}

\* the keys load_pipelines reads from the zone artifacts of a directory
KeysOf(fs) ==
    {ZoneOfFile(name) : name \in {f \in FilesIn(fs, last.self.model_dir) : GlobPipeline(f)}}

LoadedKeys(order) == Range(DictKeys(load_pipelines(last.self, files, order)))

C4_Original ==
    last.op = "train_by_zone" =>
        \A z \in TrainedZonas :
            /\ PipelinePath(last.self, z) \in DOMAIN files
            /\ ZoneOfFile(PipelineFileName(z)) = z
            /\ ZoneRows(last.df, ZoneOfFile(PipelineFileName(z))) = ZoneRows(last.df, z)

\* whether the loop body for zona, on its own, trains and saves the zone
ZoneTrains(self, df, zona) ==
    ~TrainZone(self, df, zona, LoopStart(<<>>)).raised

\* C5: when training fails for one zone, every other zone of the input is
\* still fitted and persisted, and the caller receives the pipelines of the
\* zones that did train.
C5_Original ==
    (last.op = "train_by_zone" /\ last.raised) =>
        \A z \in Range(Zonas) :
            ZoneTrains(last.self, last.df, z) =>
                /\ PipelinePath(last.self, z) \in DOMAIN files
                /\ files[PipelinePath(last.self, z)] = Dump(fit(last.self, last.df, z))
                /\ DictHas(last.ret.pipelines, z)

\* C6: when train_by_zone stops with an error at some zone, the artifacts of
\* the zones processed before it are the freshly trained ones, and every
\* other file of the directory (the failing zone's artifact, the later zones'
\* artifacts, the quality-score file) is what it was before the call.
C6_PartialTraining ==
    (last.op = "train_by_zone" /\ last.raised) =>
        LET fresh == {PipelinePath(last.self, z) : z \in TrainedZonas}
        IN /\ last.ret.done < Len(Zonas)
           /\ \A z \in TrainedZonas :
                /\ PipelinePath(last.self, z) \in DOMAIN files
                /\ files[PipelinePath(last.self, z)] = Dump(fit(last.self, last.df, z))
           /\ DOMAIN files = DOMAIN last.before \cup fresh
           /\ \A f \in DOMAIN files \ fresh : files[f] = last.before[f]

\* C6's case: a zone trained and saved, then a failing zone whose artifact of
\* an earlier run is in the directory, beside an earlier quality-score file
C6_Witness ==
    /\ last.op = "train_by_zone"
    /\ last.raised
    /\ last.ret.done >= 1
    /\ PipelinePath(last.self, Zonas[last.ret.done + 1]) \in DOMAIN last.before
    /\ ScoresPath(last.self) \in DOMAIN last.before

PredictPipeline == last.pipes[1].value

IsPredict == last.op \in {"predict", "puntaje_predict"} /\ ~last.raised

\* C8: for both predict operations the output's columns are the input's
\* columns in their order with their values, followed by the new columns.
C8_Original ==
    IsPredict =>
        LET n == Len(last.df.cols)
        IN /\ Len(last.ret.cols) > n
           /\ SubSeq(last.ret.cols, 1, n) = last.df.cols
           /\ Len(last.ret.rows) = Len(last.df.rows)
           /\ \A i \in DOMAIN last.df.rows :
                SubSeq(last.ret.rows[i].v, 1, n) = last.df.rows[i].v

\* the last k cells of a row
LastCells(row, k) == SubSeq(row.v, Len(row.v) - k + 1, Len(row.v))

\* a frame of the single row i of df
OneRow(df, i) == [cols |-> df.cols, rows |-> <<df.rows[i]>>]

\* C9: both predict operations return as many rows as they receive, in the
\* input's order, the i-th output row carrying the cluster label and the soft
\* memberships, or the class probabilities, computed from the i-th input row,
\* whatever the input's index labels are; the caller's frame is not modified.
C9_RowAlignment ==
    IsPredict =>
        /\ Len(last.ret.rows) = Len(last.df.rows)
        /\ last.caller = last.df
        /\ \A i \in DOMAIN last.df.rows :
             /\ BaseCells(last.ret.rows[i]) = BaseCells(last.df.rows[i])
             /\ last.op = "predict" =>
                  LET cluster == PredictPipeline.cluster
                      x == Cell(last.df, i, "LATI_USU") - PredictPipeline.preprocess.mean
                  IN /\ Cell(last.ret, i, "cluster_id") = HardPredict(cluster, x)
                     /\ LastCells(last.ret.rows[i], cluster.n_clusters)
                          = SoftPredict(cluster, x)
             /\ last.op = "puntaje_predict" =>
                  LastCells(last.ret.rows[i], Len(PredictPipeline.classes_))
                    = PredictProba(PredictPipeline, OneRow(last.df, i))[1]

\* C9's case: a predict on the rows of one zone of a dataset, whose index
\* labels are not 0..n-1, and whose rows get different labels
C9_Witness ==
    /\ Returned("predict")
    /\ Len(last.df.rows) >= 2
    /\ \E i \in DOMAIN last.df.rows : last.df.rows[i].idx # i - 1
    /\ Cardinality(Range(Column(last.ret, "cluster_id"))) >= 2

\* the cluster_i columns of a frame
ClusterColsOf(df) == Range(df.cols) \cap Range(ClusterColNames)

\* C10: every row returned by predict_all_zones has a cluster_id in
\* 0..n_clusters-1 and a value in each of cluster_0..cluster_{n_clusters-1},
\* the output has no other cluster_i column, for the rows of every zone of
\* the mapping at once.
C10_Original ==
    Returned("predict_all_zones") =>
        \E n \in ClusterCounts :
            /\ ClusterColsOf(last.ret) = Range(SubSeq(ClusterColNames, 1, n))
            /\ \A j \in DOMAIN last.ret.rows :
                 /\ Cell(last.ret, j, "cluster_id") \in 0..(n - 1)
                 /\ \A i \in 1..n : Cell(last.ret, j, ClusterColNames[i]) # NaNCell

\* the soft memberships of row i of the last cluster predict's output
Memberships(i) == LastCells(last.ret.rows[i], PredictPipeline.cluster.n_clusters)

\* C11: for every row returned by the cluster predict, cluster_id is the
\* index of the largest of the row's soft memberships (the first such index,
\* as argmax takes it).
C11_HardSoftConsistency ==
    Returned("predict") =>
        \A i \in DOMAIN last.ret.rows :
            LET u == Memberships(i)
                c == Cell(last.ret, i, "cluster_id") + 1
            IN /\ c \in DOMAIN u
               /\ \A j \in DOMAIN u : u[j] <= u[c]
               /\ \A j \in 1..(c - 1) : u[j] < u[c]

\* C11's case: a predict whose rows get different labels, one of them not
\* the first cluster, from memberships that differ
C11_Witness ==
    /\ Returned("predict")
    /\ Cardinality(Range(Column(last.ret, "cluster_id"))) >= 2
    /\ \E i \in DOMAIN last.ret.rows :
         /\ Cell(last.ret, i, "cluster_id") >= 1
         /\ Cardinality(Range(Memberships(i))) >= 2

\* the sum of a sequence of numbers
RECURSIVE SumSeq(_)
SumSeq(s) == IF s = <<>> THEN 0 ELSE s[1] + SumSeq(Tail(s))

KeyPos(pipes, k) == CHOOSE i \in DOMAIN pipes : pipes[i].key = k

\* C13: in predict_all_zones' output the rows are grouped by zone in the
\* iteration order of the mapping, and within one zone they keep their
\* relative order from the input.
C13_GroupedByMappingOrder ==
    Returned("predict_all_zones") =>
        /\ \A i, j \in DOMAIN last.ret.rows :
             i < j => KeyPos(last.pipes, Cell(last.ret, i, "Zona"))
                        <= KeyPos(last.pipes, Cell(last.ret, j, "Zona"))
        /\ \A k \in DOMAIN last.pipes :
             [i \in DOMAIN ZoneRows(last.ret, last.pipes[k].key).rows |->
                 BaseCells(ZoneRows(last.ret, last.pipes[k].key).rows[i])]
               = [i \in DOMAIN ZoneRows(last.df, last.pipes[k].key).rows |->
                    ZoneRows(last.df, last.pipes[k].key).rows[i].v]

\* C13's case: two keys, the dataset starting with rows of the later key, two
\* of them different
C13_Witness ==
    /\ Returned("predict_all_zones")
    /\ Len(last.pipes) = 2
    /\ Cell(last.df, 1, "Zona") = last.pipes[2].key
    /\ Cell(last.ret, 1, "Zona") = last.pipes[1].key
    /\ Cardinality(Range(Column(ZoneRows(last.df, last.pipes[2].key), "LATI_USU"))) >= 2

\* the fit calls the last train_by_zone made for zone z
FitsOf(z) == {i \in DOMAIN last.ret.fits : last.ret.fits[i].zona = z}

\* the rows of the last call's dataset with zone z, by index label
RowsOfZone(z) == {last.df.rows[i].idx : i \in {j \in DOMAIN last.df.rows :
                                                   Cell(last.df, j, "Zona") = z}}

\* C14: within one train_by_zone call each zone's pipeline is fitted exactly
\* once, on exactly the rows of that zone, and every row of the input is used
\* to fit exactly one zone's pipeline.
C14_Original ==
    last.op = "train_by_zone" =>
        /\ \A z \in Range(Zonas) :
             /\ Cardinality(FitsOf(z)) = 1
             /\ \A i \in FitsOf(z) : Range(last.ret.fits[i].rows) = RowsOfZone(z)
        /\ \A r \in DOMAIN last.df.rows :
             Cardinality({i \in DOMAIN last.ret.fits :
                            last.df.rows[r].idx \in Range(last.ret.fits[i].rows)}) = 1

\* the scores file of the last call's service
ScoresFile == files[ScoresPath(last.self)]

\* C15: after a train_by_zone call that completes, the quality-score file
\* holds exactly one row for each distinct zone of the call's input, with that
\* call's values, and no row of an earlier run.
C15_ScoresReplaced ==
    Returned("train_by_zone") =>
        /\ ScoresPath(last.self) \in DOMAIN files
        /\ [i \in DOMAIN ScoresFile |-> ScoresFile[i].zona] = Zonas
        /\ \A i \in DOMAIN ScoresFile :
             LET pipeline == DictGet(last.ret.pipelines, Zonas[i])
             IN /\ ScoresFile[i].PC = pipeline.cluster.pc_
                /\ ScoresFile[i].PEC = pipeline.cluster.pec_

\* C15's case: a completed training on a directory whose scores file holds
\* the row of a zone that is not in this call's input
C15_Witness ==
    /\ Returned("train_by_zone")
    /\ ScoresPath(last.self) \in DOMAIN last.before
    /\ \E i \in DOMAIN last.before[ScoresPath(last.self)] :
         last.before[ScoresPath(last.self)][i].zona \notin Range(Zonas)

\* the files that a step created, removed or changed
Touched ==
    {f \in DOMAIN files \cup DOMAIN files' :
        \/ f \notin DOMAIN files
        \/ f \notin DOMAIN files'
        \/ files[f] # files'[f]}

\* C17: a file of the model directory changes only in a train_by_zone step,
\* and a zone artifact only when that call's dataset holds the zone: predict,
\* predict_all_zones and load_pipelines change no file and no pipeline of the
\* mapping, train_by_zone on the zones Z leaves the artifacts of the other
\* zones as they were.
C17_ArtifactsChange ==
    [][/\ \A f \in Touched :
            /\ last'.op = "train_by_zone"
            /\ \/ f = ScoresPath(last'.self)
               \/ \E z \in Range(Column(last'.df, "Zona")) :
                    f = <<last'.self.model_dir, "pipeline_">> \o z \o <<".pkl">>
       /\ last'.op = "predict_all_zones" =>
            /\ pipelines' = pipelines
            /\ last'.pipes = pipelines]_vars

\* C17's case: a training that retrains a zone, changing its artifact, on a
\* directory holding the artifact of a zone outside the dataset
C17_Witness ==
    /\ Returned("train_by_zone")
    /\ \E z \in Range(Zonas) :
         /\ PipelinePath(last.self, z) \in DOMAIN last.before
         /\ files[PipelinePath(last.self, z)] # last.before[PipelinePath(last.self, z)]
    /\ \E z \in ZoneNames \ Range(Zonas) :
         /\ PipelinePath(last.self, z) \in DOMAIN last.before
         /\ files[PipelinePath(last.self, z)] = last.before[PipelinePath(last.self, z)]

\* C16: for every model_dir, the quality-score file of the clustering service
\* and the metrics file of the scoring service are written inside that
\* directory, which exists by the time of the write (so the write succeeds).
C16_Original ==
    /\ (last.op = "train_by_zone" /\ last.ret.done = Len(Zonas)) =>
          /\ ~last.raised
          /\ last.self.model_dir \in dirs
          /\ PathOf(last.self.model_dir, ScoresFileName(last.self)) \in DOMAIN files
    /\ Returned("puntaje_fit") =>
          /\ last.self.model_dir \in dirs
          /\ PathOf(last.self.model_dir, Tail(MetricsPath(last.self))) \in DOMAIN files

\* whether the default model directory holds a zone artifact
HasZoneArtifact(fs) == \E name \in FilesIn(fs, models_dir) : GlobPipeline(name)

\* C18: having nothing to load is a value, not an exception: load_pipelines
\* on a directory without zone artifact returns the empty mapping,
\* load_pipeline without classifier artifact returns the null result, and with
\* the artifact present it returns the pipeline read from it.
C18_NothingToLoad ==
    /\ last.op = "load_pipelines" =>
          /\ ~last.raised
          /\ ~HasZoneArtifact(files) => last.ret = <<>>
          /\ HasZoneArtifact(files) => last.ret # <<>>
    /\ last.op = "load_pipeline" =>
          /\ ~last.raised
          /\ IF ScorePipelinePath(last.self) \in DOMAIN files
             THEN /\ last.ret # None
                  /\ DumpScore(last.ret) = files[ScorePipelinePath(last.self)]
             ELSE last.ret = None

\* C18's case: load_pipeline finds no classifier artifact in its directory,
\* which holds other files
C18_Witness ==
    /\ last.op = "load_pipeline"
    /\ ~last.raised
    /\ last.ret = None
    /\ FilesIn(files, last.self.model_dir) # {}

IsScript == last.op \in {"predict_clusters.py", "inference.py"}

\* the final scored output of inference.py
FinalOutput == "dataset_inference_{now}.csv"

\* C19: in both scripts no exception reaches the caller, predict_all_zones is
\* never called with an empty mapping nor the score predict with a null
\* pipeline; with no zone pipeline persisted nothing is written, and with the
\* classifier artifact missing the final scored output is not written.
C19_ScriptsCheckWhatTheyLoad ==
    IsScript =>
        /\ ~last.raised
        /\ ~last.ret.raised
        /\ \A i \in DOMAIN last.ret.calls :
             LET c == last.ret.calls[i]
             IN /\ c.op = "predict_all_zones" => c.arg # <<>>
                /\ c.op = "puntaje_predict" => c.arg # None
        /\ ~HasZoneArtifact(files) =>
             /\ last.ret.written = <<>>
             /\ \A i \in DOMAIN last.ret.calls : last.ret.calls[i].op = "load_pipelines"
        /\ ScorePipelinePath(DefaultScoreService) \notin DOMAIN files =>
             /\ FinalOutput \notin Range(last.ret.written)
             /\ \A i \in DOMAIN last.ret.calls : last.ret.calls[i].op # "puntaje_predict"

\* C19's case: inference.py with zone pipelines but no classifier artifact,
\* stopping after the cluster prediction
C19_Witness ==
    /\ last.op = "inference.py"
    /\ HasZoneArtifact(files)
    /\ ScorePipelinePath(DefaultScoreService) \notin DOMAIN files
    /\ last.ret.written = <<"dataset_cluster.csv">>

\* a script run on an empty model directory
C19_WitnessEmpty ==
    /\ IsScript
    /\ ~HasZoneArtifact(files)
    /\ Len(last.ret.calls) = 1

\* C20: in the classifier's fit no row without label enters either split, the
\* two splits are disjoint and together hold every labelled row, and the
\* held-out split holds 20% of the labelled rows, rounded up to whole rows.
C20_SplitOfLabelledRows ==
    (last.op = "puntaje_fit" /\ last.ret.train # {}) =>
        LET labelled == {i \in DOMAIN last.df.rows : Cell(last.df, i, "puntaje") \in Labels}
            n == Cardinality(labelled)
            held == Cardinality(last.ret.test)
        IN /\ \A i \in last.ret.train \cup last.ret.test :
                Cell(last.df, i, "puntaje") # NaNCell
           /\ last.ret.train \cap last.ret.test = {}
           /\ last.ret.train \cup last.ret.test = labelled
           /\ 5 * held >= n
           /\ 5 * (held - 1) < n

\* C20's case: a split drawn from a dataset with a row without label, the
\* 20% of its four labelled rows rounded up to one row
C20_Witness ==
    /\ last.op = "puntaje_fit"
    /\ \E i \in DOMAIN last.df.rows : Cell(last.df, i, "puntaje") = NaNCell
    /\ Cardinality(last.ret.train) = 3
    /\ Cardinality(last.ret.test) = 1

\* a fit that completes on two labels, two rows held out
C20_WitnessStratified ==
    /\ Returned("puntaje_fit")
    /\ Cardinality(LabelsOf(last.df, last.ret.train)) = 2
    /\ Cardinality(last.ret.test) = 2

\* the labelled rows of the last fitted dataset
LabelledRows == {i \in DOMAIN last.df.rows : Cell(last.df, i, "puntaje") \in Labels}

\* the rows of S of zone z, and those of them with label l
InZone(S, z) == {i \in S : Cell(last.df, i, "Zona") = z}
InClass(S, z, l) == {i \in InZone(S, z) : Cell(last.df, i, "puntaje") = l}

C21_WitnessTwoZones ==
    /\ last.op = "puntaje_fit"
    /\ \A z \in {<<"A">>, <<"B">>} : InZone(last.ret.test, z) # {}

\* the calls of the last script run with the given name
CallsOf(op) == {i \in DOMAIN last.ret.calls : last.ret.calls[i].op = op}

\* the pipeline the last script run scored with, and the frame it scored
ScoredWith == last.ret.calls[CHOOSE i \in CallsOf("puntaje_predict") : TRUE].arg
ClusteredBy == last.ret.calls[CHOOSE i \in CallsOf("predict_all_zones") : TRUE].arg
Clustered == predict_all_zones(last.df, ClusteredBy).df

\* the columns of a frame named puntaje_<i>
PuntajeColsOf(df) == SelectSeq(df.cols, LAMBDA c : c \in Range(PuntajeColNames))

\* C22: a completed fit persists a classifier of K classes, K the number of
\* distinct labels of the training split, encoded by their position in
\* increasing order; the score predict with the persisted classifier appends
\* exactly the K columns puntaje_1..puntaje_K after the columns it was given,
\* and puntaje_i holds the probability of the class at position i.
C22_ProbabilityColumns ==
    /\ Returned("puntaje_fit") =>
         LET le == LabelEncoderFit(LabelsOf(last.df, last.ret.train))
             K == Cardinality(LabelsOf(last.df, last.ret.train))
             persisted == LoadScore(files[ScorePipelinePath(last.self)])
         IN /\ Len(le) = K
            /\ \A i \in 1..K :
                 /\ Cardinality({l \in Range(le) : l < le[i]}) = i - 1
                 /\ LabelEncoderTransform(le, le[i]) = persisted.classes_[i]
            /\ Len(persisted.classes_) = K
    /\ (last.op = "inference.py" /\ FinalOutput \in Range(last.ret.written)) =>
         LET K == Len(ScoredWith.classes_)
             proba == PredictProba(ScoredWith, Clustered)
             out == last.ret.out
         IN /\ ScoredWith = LoadScore(files[ScorePipelinePath(DefaultScoreService)])
            /\ out.cols = Clustered.cols \o SubSeq(PuntajeColNames, 1, K)
            /\ PuntajeColsOf(out) = [i \in 1..K |-> PuntajeColNames[i]]
            /\ Len(out.rows) = Len(Clustered.rows)
            /\ \A r \in DOMAIN out.rows, i \in 1..K :
                 Cell(out, r, PuntajeColNames[i]) = proba[r][i]

\* C22's case: inference.py scores with a classifier fitted on three labels
\* and writes the final output
C22_Witness ==
    /\ last.op = "inference.py"
    /\ FinalOutput \in Range(last.ret.written)
    /\ Len(ScoredWith.classes_) = 3
    /\ \E r \in DOMAIN last.ret.out.rows :
         Cell(last.ret.out, r, "puntaje_1") # Cell(last.ret.out, r, "puntaje_3")

\* a fit on the labels 1, 3, 5 that completes
C22_WitnessFit ==
    /\ Returned("puntaje_fit")
    /\ LabelsOf(last.df, last.ret.train) = {1, 3, 5}

\* C23: for every scoring service that has persisted a classifier artifact,
\* the metrics file it writes is there, holds one row, and that row comes from
\* the fit that wrote the artifact (it describes a classifier of as many
\* classes).
C23_Original ==
    \A self \in ScoreServices :
        ScorePipelinePath(self) \in DOMAIN files =>
            /\ MetricsPath(self) \in DOMAIN files
            /\ Len(files[MetricsPath(self)]) = 1
            /\ files[MetricsPath(self)][1].classes
                  = Len(LoadScore(files[ScorePipelinePath(self)]).classes_)

\* the columns each operation needs
ClusterRequired == <<"Zona">> \o categorical_cols \o numerical_cols
ScoreRequired == <<"puntaje", "Zona">> \o puntaje_numerical_cols \o puntaje_categorical_cols

\* C24: on a dataset that lacks a required column, train_by_zone, the
\* classifier's fit and the training script that runs both fail before any
\* model is fitted and leave the directory as it was: no artifact, no
\* quality-score file, no metrics file is written.
C24_Original ==
    /\ (last.op = "train_by_zone" /\ ~HasCols(last.df, ClusterRequired)) =>
          /\ last.raised
          /\ last.ret.fits = <<>>
          /\ files = last.before
    /\ (last.op = "puntaje_fit" /\ ~HasCols(last.df, ScoreRequired)) =>
          /\ last.raised
          /\ last.ret.pipeline = <<>>
          /\ files = last.before
    /\ (last.op = "train.py" /\ last.ret.failed # <<>>
          /\ ~HasCols(last.df, ClusterRequired \o ScoreRequired)) =>
          /\ last.ret.fits = <<>>
          /\ ~last.ret.fitted
          /\ files = last.before

\* the same of each operation on its own
C24_EachOperation ==
    last.op \in {"train_by_zone", "puntaje_fit"} => C24_Original

\* a dataset with its unparseable feature cells made missing
Coerced(df) ==
    LET coerce(xs) == [i \in DOMAIN xs |-> IF xs[i] = Unparseable THEN NaNCell ELSE xs[i]]
    IN SetColumn(SetColumn(df, "LATI_USU", coerce(Column(df, "LATI_USU"))),
                 "AREA", coerce(Column(df, "AREA")))

\* the cluster columns of a frame
ClusterCells(df) ==
    [i \in DOMAIN df.rows |->
        [c \in {"cluster_id"} \cup (Range(ClusterColNames) \cap Range(df.cols)) |->
            Cell(df, i, c)]]

\* C25: an unparseable value in a feature column is handled exactly as a
\* missing one: training and prediction on a dataset end as they do on the
\* same dataset with the unparseable cells missing (no failure of its own,
\* the same artifacts, the same clusters).
C25_Original ==
    /\ last.op = "train_by_zone" =>
         LET res == train_by_zone(last.self, Coerced(last.df), last.before, dirs)
         IN /\ last.raised = res.raised
            /\ files = res.files
    /\ last.op = "predict_all_zones" =>
         LET res == predict_all_zones(Coerced(last.df), last.pipes)
         IN /\ last.raised = res.raised
            /\ ~last.raised => ClusterCells(last.ret) = ClusterCells(res.df)

\* C26: in a prediction whose numeric cells are numbers or missing, no error
\* is raised; a row whose category is not among the categories of its zone's
\* fit is encoded -1, a row whose category is missing is encoded as the
\* zone's most frequent category at fit (never -1), and the row's cluster is
\* the one of the features so encoded.
C26_UnseenAndMissingCategories ==
    (/\ last.op = "predict_all_zones"
     /\ \A i \in DOMAIN last.df.rows : Cell(last.df, i, "LATI_USU") # Unparseable)
    => /\ ~last.raised
       /\ \A j \in DOMAIN last.ret.rows :
            LET pre == DictGet(last.pipes, Cell(last.ret, j, "Zona"))
                row == Filter(last.ret, [i \in DOMAIN last.ret.rows |-> i = j])
                a == Cell(last.ret, j, "AREA")
                x == Cell(last.ret, j, "LATI_USU")
                code == CategoricalTransform(pre.preprocess, row)[1]
                expected == IF a = NaNCell
                            THEN OrdinalEncode(pre.preprocess.categories,
                                               pre.preprocess.most_frequent)
                            ELSE IF a \in Range(pre.preprocess.categories)
                            THEN OrdinalEncode(pre.preprocess.categories, a)
                            ELSE 0 - 1
            IN /\ code = expected
               /\ a = NaNCell => code >= 0
               /\ pre.preprocess.most_frequent \in Range(pre.preprocess.categories)
               /\ Cell(last.ret, j, "cluster_id")
                     = HardPredict(pre.cluster,
                                   ((IF x = NaNCell THEN pre.preprocess.mean ELSE x)
                                       - pre.preprocess.mean) + expected)

\* C26's case: a row with a category unseen at fit is predicted
C26_Witness ==
    /\ last.op = "predict_all_zones"
    /\ ~last.raised
    /\ \E j \in DOMAIN last.ret.rows :
         /\ Cell(last.ret, j, "AREA") = 2
         /\ Len(DictGet(last.pipes, Cell(last.ret, j, "Zona")).preprocess.categories) = 2

\* a row with a missing category is predicted by a pipeline whose most
\* frequent category is not the first one
C26_WitnessMissing ==
    /\ last.op = "predict_all_zones"
    /\ ~last.raised
    /\ \E j \in DOMAIN last.ret.rows :
         /\ Cell(last.ret, j, "AREA") = NaNCell
         /\ DictGet(last.pipes, Cell(last.ret, j, "Zona")).preprocess.most_frequent = 1

\* both runs have returned
AllDone == \A p \in Procs : running.procs[p].pc = "done"

\* the zone artifacts written by the runs, and the run and pipeline of the
\* last write to each
ArtifactsWritten == {path \in DOMAIN running.last_write : running.last_write[path].zona # <<>>}

LastWritten(path) ==
    LET w == running.last_write[path]
    IN Dump(DictGet(running.procs[w.run].st.pipelines, w.zona))

\* C27: after two train_by_zone runs side by side on one model directory
\* have both finished, the artifact persisted for each zone is the one
\* written by the run that wrote that zone last.
C27_Original ==
    AllDone => \A path \in ArtifactsWritten : files[path] = LastWritten(path)

\* the artifacts of two zones come whole from different runs
C27_DifferentRuns ==
    /\ AllDone
    /\ \A path \in ArtifactsWritten :
         \E p \in Procs : \E z \in Range(running.procs[p].zonas) :
            files[path] = Dump(DictGet(running.procs[p].st.pipelines, z))
    /\ \E a, b \in ArtifactsWritten :
         running.last_write[a].run # running.last_write[b].run

\* the rows of a frame whose zone is z
RowsIn(df, z) == {i \in DOMAIN df.rows : Cell(df, i, "Zona") = z}

\* the zones of the input of the last script run that have a persisted
\* pipeline in the default model directory
PersistedZonas ==
    {z \in Range(Column(last.df, "Zona")) : PipelinePath(DefaultService, z) \in DOMAIN files}

\* the final scored output of inference.py is made of the cluster-augmented
\* rows, in the order the cluster prediction of all zones returned them,
\* each with its cluster, its memberships and its class probabilities
ScoredAfterClustered ==
    LET out == last.ret.out
        K == Len(ScoredWith.classes_)
    IN /\ \A i \in CallsOf("predict_all_zones"), j \in CallsOf("puntaje_predict") : i < j
       /\ Len(out.rows) = Len(Clustered.rows)
       /\ \A j \in DOMAIN out.rows :
            LET pipeline == DictGet(ClusteredBy, Cell(out, j, "Zona"))
            IN /\ \A c \in Range(Clustered.cols) : Cell(out, j, c) = Cell(Clustered, j, c)
               /\ Cell(out, j, "cluster_id") \in 0..(pipeline.cluster.n_clusters - 1)
               /\ \A c \in 1..pipeline.cluster.n_clusters :
                    Cell(out, j, ClusterColNames[c]) # NaNCell
               /\ \A c \in 1..K : Cell(out, j, PuntajeColNames[c]) # NaNCell

\* C28: when inference.py writes its final scored output, the classifier was
\* applied after the cluster prediction of all zones and to its rows, every
\* row of the output carries a cluster, its memberships and the class
\* probabilities, and every input row whose zone has a persisted pipeline is
\* in the output.
C28_Original ==
    (last.op = "inference.py" /\ FinalOutput \in Range(last.ret.written)) =>
        /\ ScoredAfterClustered
        /\ \A z \in PersistedZonas :
             Cardinality(RowsIn(last.ret.out, z)) = Cardinality(RowsIn(last.df, z))

\* the same for the input rows whose zone is a key of the loaded mapping
C28_RowsOfLoadedKeys ==
    (last.op = "inference.py" /\ FinalOutput \in Range(last.ret.written)) =>
        /\ ScoredAfterClustered
        /\ \A z \in Range(DictKeys(ClusteredBy)) :
             Cardinality(RowsIn(last.ret.out, z)) = Cardinality(RowsIn(last.df, z))

\* the quality-score files of the services, one per distance setting
ScoreFiles == {ScoresPath(self) : self \in Services} \cap DOMAIN files

\* what load_pipelines may return for zona on the file system fs: the
\* pipeline under that key for each listing order, nothing when no such key
LoadedFor(fs, zona) ==
    {LET loaded == load_pipelines(DefaultService, fs, order)
     IN IF DictHas(loaded, zona) THEN <<DictGet(loaded, zona)>> ELSE <<>> :
        order \in GlobOrders(DefaultService, fs)}

\* C29: after any sequence of train_by_zone runs on one model directory,
\* every row of every quality-score file describes the pipeline that
\* load_pipelines returns for the row's zone: a run that fails, and so
\* leaves the score files with the rows of an earlier run, leaves what
\* load_pipelines returns for the zones of those rows as that run left it.
C29_Original ==
    [][(last'.op = "train_by_zone" /\ last'.raised) =>
          \A path \in ScoreFiles :
              /\ files'[path] = files[path]
              /\ \A i \in DOMAIN files[path] :
                   LoadedFor(files', files[path][i].zona)
                       = LoadedFor(files, files[path][i].zona)]_vars

\* a row of a quality-score file holds the partition coefficients of pipeline
DescribedBy(row, pipeline) ==
    /\ row.PC = pipeline.cluster.pc_
    /\ row.PEC = pipeline.cluster.pec_

\* after a train_by_zone call that completed, the rows of its score file hold
\* the coefficients of the artifacts stored under their zones' names
C29_AfterCompletedRun ==
    (last.op = "train_by_zone" /\ ~last.raised) =>
        \A i \in DOMAIN files[ScoresPath(last.self)] :
            LET row == files[ScoresPath(last.self)][i]
            IN /\ PipelinePath(last.self, row.zona) \in DOMAIN files
               /\ DescribedBy(row, Load(files[PipelinePath(last.self, row.zona)]))

\* the paths of the classifier artifact, one per model directory
ClassifierPaths == {ScorePipelinePath(s) : s \in ScoreServices}

\* the paths of the zone artifacts load_pipelines reads on the file system fs
ZoneArtifactPaths(fs) ==
    UNION {{PathOf(dir, name) : name \in {n \in FilesIn(fs, dir) : GlobPipeline(n)}} :
              dir \in ModelDirs}

\* zone names close to the classifier artifact's name
LookalikeZonas == {<<"puntaje">>, <<"pipe_puntaje">>, <<"pipe_puntaje", ".pkl">>}

\* the file at path is the same, or as absent, on both file systems
SameFile(path, fs1, fs2) ==
    /\ path \in DOMAIN fs1 <=> path \in DOMAIN fs2
    /\ path \in DOMAIN fs1 => fs1[path] = fs2[path]

\* C30: zone artifacts and the classifier artifact of one model directory
\* are never taken for one another: load_pipelines reads no classifier
\* artifact, no zone name gives train_by_zone the classifier artifact's path,
\* only the classifier's fit changes the classifier artifact (so what
\* load_pipeline returns is a classifier) and that fit changes no zone
\* artifact.
C30_ArtifactsApart ==
    /\ ZoneArtifactPaths(files) \cap ClassifierPaths = {}
    /\ \A self \in ServicesAt, zona \in ZoneNames \cup LookalikeZonas :
         PipelinePath(self, zona) \notin ClassifierPaths
    /\ last.op \notin {"start", "puntaje_fit"} =>
         \A path \in ClassifierPaths : SameFile(path, last.before, files)
    /\ last.op = "puntaje_fit" =>
         \A path \in ZoneArtifactPaths(files) \cup ZoneArtifactPaths(last.before) :
             SameFile(path, last.before, files)
    /\ (last.op = "load_pipeline" /\ last.ret # None) =>
         last.ret = LoadScore(files[ScorePipelinePath(last.self)])

\* train_by_zone has persisted zone artifacts into the directory that held
\* the classifier artifact
C30_Witness ==
    /\ last.op = "train_by_zone"
    /\ ~last.raised
    /\ ScorePipelinePath([model_dir |-> last.self.model_dir]) \in DOMAIN last.before
    /\ \E zona \in ZoneNames :
         /\ PipelinePath(last.self, zona) \in DOMAIN files
         /\ PipelinePath(last.self, zona) \notin DOMAIN last.before

\* load_pipelines has returned pipelines from the directory that holds the
\* classifier artifact
C30_WitnessLoadPipelines ==
    /\ last.op = "load_pipelines"
    /\ last.ret # <<>>
    /\ ScorePipelinePath(DefaultScoreService) \in DOMAIN files

\* load_pipeline has returned the classifier from a directory that holds
\* zone artifacts
C30_WitnessLoadPipeline ==
    /\ last.op = "load_pipeline"
    /\ last.ret # None
    /\ HasZoneArtifact(files)

====
